---- MODULE Spec2Model ----
(***************************************************************************)
(* Model of package feeds (internal/feeds/weather.go): the two lookup      *)
(* tables and FetchWeather, which resolves coordinates, issues one HTTP    *)
(* GET, checks the status, decodes the JSON body and translates the        *)
(* weather code.                                                           *)
(*                                                                         *)
(* Number representation.  Coordinates are integers in units of 10^-4      *)
(* degree (40.7128 is 407128), the precision the URL is formatted with.    *)
(* Temperatures are integers in tenths of a degree Celsius (25.5 is 255).  *)
(* A Go pointer that may be nil is a sequence of length 0 (nil) or 1.      *)
(* A Go error is the prefix of its message, or ErrNil.                     *)
(***************************************************************************)
EXTENDS Integers, Sequences, FiniteSets, TLC

VARIABLES
    naCountryCoordinates,     \* package-level map[string]Coordinates
    weatherCodeDescriptions,  \* package-level map[int]string
    wire,      \* per call: what the network will answer to this call's GET
    pc,        \* per call: position inside FetchWeather
    country,   \* per call: the argument
    coords,    \* per call: local coords
    url,       \* per call: local url
    resp,      \* per call: local resp (nil or the response)
    apiResp,   \* per call: local apiResp
    result,    \* per call: returned *WeatherData (nil or the value)
    err,       \* per call: returned error
    steps,     \* per call: the statements executed so far, in order
    requests   \* per call: HTTP GET requests put on the wire so far

vars == <<naCountryCoordinates, weatherCodeDescriptions, wire, pc, country,
          coords, url, resp, apiResp, result, err, steps, requests>>

\* Number of FetchWeather invocations that may be in flight together.
NumCalls == 2

Calls == 1..NumCalls

-----------------------------------------------------------------------------
(* Static data *)

\* the Mexico City longitude with its decimal point one place to the right
naCountryCoordinatesMistyped ==
    ("US" :> [Lat |-> 407128, Lon |-> -740060]) @@
    ("CA" :> [Lat |-> 436532, Lon |-> -793832]) @@
    ("MX" :> [Lat |-> 194326, Lon |-> -9913320])

\* var naCountryCoordinates = map[string]Coordinates{...}
naCountryCoordinatesInit ==
    ("US" :> [Lat |-> 407128, Lon |-> -740060]) @@
    ("CA" :> [Lat |-> 436532, Lon |-> -793832]) @@
    ("MX" :> [Lat |-> 194326, Lon |-> -991332])

\* the table with the entry for code 77 lost
weatherCodeDescriptionsShort ==
    (0 :> "Clear sky") @@ (1 :> "Mainly clear") @@ (2 :> "Partly cloudy") @@
    (3 :> "Overcast") @@ (45 :> "Foggy") @@ (48 :> "Depositing rime fog") @@
    (51 :> "Light drizzle") @@ (53 :> "Moderate drizzle") @@
    (55 :> "Dense drizzle") @@ (61 :> "Slight rain") @@
    (63 :> "Moderate rain") @@ (65 :> "Heavy rain") @@
    (71 :> "Slight snow") @@ (73 :> "Moderate snow") @@ (75 :> "Heavy snow") @@
    (80 :> "Slight rain showers") @@
    (81 :> "Moderate rain showers") @@ (82 :> "Violent rain showers") @@
    (85 :> "Slight snow showers") @@ (86 :> "Heavy snow showers") @@
    (95 :> "Thunderstorm") @@ (96 :> "Thunderstorm with slight hail") @@
    (99 :> "Thunderstorm with heavy hail")

\* var weatherCodeDescriptions = map[int]string{...}
weatherCodeDescriptionsInit ==
    (0 :> "Clear sky") @@ (1 :> "Mainly clear") @@ (2 :> "Partly cloudy") @@
    (3 :> "Overcast") @@ (45 :> "Foggy") @@ (48 :> "Depositing rime fog") @@
    (51 :> "Light drizzle") @@ (53 :> "Moderate drizzle") @@
    (55 :> "Dense drizzle") @@ (61 :> "Slight rain") @@
    (63 :> "Moderate rain") @@ (65 :> "Heavy rain") @@
    (71 :> "Slight snow") @@ (73 :> "Moderate snow") @@ (75 :> "Heavy snow") @@
    (77 :> "Snow grains") @@ (80 :> "Slight rain showers") @@
    (81 :> "Moderate rain showers") @@ (82 :> "Violent rain showers") @@
    (85 :> "Slight snow showers") @@ (86 :> "Heavy snow showers") @@
    (95 :> "Thunderstorm") @@ (96 :> "Thunderstorm with slight hail") @@
    (99 :> "Thunderstorm with heavy hail")

\* http.StatusOK
StatusOK == 200

\* digits after the decimal point in the URL ("%.4f")
Precision == 4

Scale == 10 ^ Precision

ErrNil == "nil"
ErrTransport == "weather API call failed"
ErrStatus == "weather API returned status"
ErrDecode == "failed to parse weather response"

\* zero values of the Go types
ZeroCoordinates == [Lat |-> 0, Lon |-> 0]
ZeroOpenMeteoResponse ==
    [Temperature |-> 0, ApparentTemperature |-> 0, WeatherCode |-> 0]

-----------------------------------------------------------------------------
(* Coordinate resolution and URL construction: weather.go 70-80 *)

\* the !ok branch left out: the zero value of the failed lookup is used
LookupCoordinatesNoFallback(table, c) ==
    IF c \in DOMAIN table THEN table[c] ELSE ZeroCoordinates

\* coords, ok := naCountryCoordinates[country]; if !ok { coords = ...["US"] }
LookupCoordinates(table, c) ==
    IF c \in DOMAIN table THEN table[c] ELSE table["US"]

Digit(d) == <<"0", "1", "2", "3", "4", "5", "6", "7", "8", "9">>[d + 1]

RECURSIVE NatToString(_)
NatToString(n) ==
    IF n < 10 THEN Digit(n) ELSE NatToString(n \div 10) \o Digit(n % 10)

RECURSIVE FracDigits(_, _)
\* the k low decimal digits of n, zero padded
FracDigits(n, k) ==
    IF k = 0 THEN "" ELSE FracDigits(n \div 10, k - 1) \o Digit(n % 10)

Abs(n) == IF n < 0 THEN -n ELSE n

\* fmt "%.4f" of a value given in units of 10^-4
FormatF4(v) ==
    (IF v < 0 THEN "-" ELSE "") \o NatToString(Abs(v) \div Scale) \o "."
        \o FracDigits(Abs(v) % Scale, Precision)

BuildURL(c) ==
    "https://api.open-meteo.com/v1/forecast?latitude=" \o FormatF4(c.Lat)
        \o "&longitude=" \o FormatF4(c.Lon)
        \o "&current=temperature_2m,apparent_temperature,weather_code"

-----------------------------------------------------------------------------
(* JSON bodies and encoding/json's decoding into OpenMeteoResponse *)

\* A member of the "current" object: absent, null, a value that is neither
\* a number nor null ("string" stands for string, boolean, array and
\* object), an integer literal, a literal with a fraction or an exponent
\* ("dec"), or a number literal beyond the range of float64 ("huge").
\* v is the number in tenths.
JAbsent == [k |-> "absent", v |-> 0]
JNull == [k |-> "null", v |-> 0]
JString == [k |-> "string", v |-> 0]
JInt(n) == [k |-> "int", v |-> n * 10]
JDec(tenths) == [k |-> "dec", v |-> tenths]
JHuge == [k |-> "huge", v |-> 0]

NoMembers ==
    [temperature_2m |-> JAbsent, apparent_temperature |-> JAbsent,
     weather_code |-> JAbsent]

\* The "current" member of the top-level object: absent, null, a value that
\* is neither an object nor null ("array"), or an object with the members.
CurAbsent == [k |-> "absent", m |-> NoMembers]
CurNull == [k |-> "null", m |-> NoMembers]
CurArray == [k |-> "array", m |-> NoMembers]
CurObject(t, a, w) ==
    [k |-> "object",
     m |-> [temperature_2m |-> t, apparent_temperature |-> a, weather_code |-> w]]

\* A body: empty, not beginning with a JSON value, the value null, a value
\* that is neither an object nor null ("array"), or an object.
BodyEmpty == [top |-> "eof", current |-> CurAbsent]
BodySyntax == [top |-> "syntax", current |-> CurAbsent]
BodyNull == [top |-> "null", current |-> CurAbsent]
BodyArray == [top |-> "array", current |-> CurAbsent]
BodyObject(cur) == [top |-> "object", current |-> cur]

IsNumber(f) == f.k \in {"int", "dec"}

\* a float64 member: a number in range is stored, null and absent leave the
\* zero value, anything else is an UnmarshalTypeError
FloatMember(f) ==
    IF IsNumber(f) THEN [bad |-> FALSE, val |-> f.v]
    ELSE [bad |-> f.k \in {"string", "huge"}, val |-> 0]

\* an int member: only an integer literal is stored
IntMember(f) ==
    IF f.k = "int" THEN [bad |-> FALSE, val |-> f.v \div 10]
    ELSE [bad |-> f.k \in {"string", "dec", "huge"}, val |-> 0]

DecodeCurrent(m) ==
    LET t == FloatMember(m.temperature_2m)
        a == FloatMember(m.apparent_temperature)
        w == IntMember(m.weather_code)
    IN  [bad |-> t.bad \/ a.bad \/ w.bad,
         val |-> [Temperature |-> t.val, ApparentTemperature |-> a.val,
                  WeatherCode |-> w.val]]

\* a decoder that insists on the whole shape being present
DecodeBodyStrict(body) ==
    IF body.top = "object" /\ body.current.k = "object"
          /\ IsNumber(body.current.m.temperature_2m)
          /\ IsNumber(body.current.m.apparent_temperature)
          /\ body.current.m.weather_code.k = "int"
    THEN DecodeCurrent(body.current.m)
    ELSE [bad |-> TRUE, val |-> ZeroOpenMeteoResponse]

\* json.NewDecoder(resp.Body).Decode(&apiResp): bad is err != nil
DecodeBody(body) ==
    CASE body.top \in {"eof", "syntax", "array"} ->
            [bad |-> TRUE, val |-> ZeroOpenMeteoResponse]
      [] body.top = "null" ->
            [bad |-> FALSE, val |-> ZeroOpenMeteoResponse]
      [] body.top = "object" ->
            CASE body.current.k \in {"absent", "null"} ->
                    [bad |-> FALSE, val |-> ZeroOpenMeteoResponse]
              [] body.current.k = "array" ->
                    [bad |-> TRUE, val |-> ZeroOpenMeteoResponse]
              [] body.current.k = "object" ->
                    DecodeCurrent(body.current.m)

-----------------------------------------------------------------------------
(* Status check, weather code translation, result construction *)

StatusIsOK2xx(code) == code >= 200 /\ code < 300

\* the negation of resp.StatusCode != http.StatusOK
StatusIsOK(code) == code = StatusOK

\* the !ok branch left out: an absent code yields the empty string
DescribeNoDefault(table, code) ==
    IF code \in DOMAIN table THEN table[code] ELSE ""

\* description, ok := weatherCodeDescriptions[code]; if !ok { "Unknown" }
Describe(table, code) ==
    IF code \in DOMAIN table THEN table[code] ELSE "Unknown"

MakeWeatherDataSwapped(description, r) ==
    [Summary |-> description, TemperatureC |-> r.ApparentTemperature,
     FeelsLikeC |-> r.Temperature]

MakeWeatherData(description, r) ==
    [Summary |-> description, TemperatureC |-> r.Temperature,
     FeelsLikeC |-> r.ApparentTemperature]

-----------------------------------------------------------------------------
(* Inputs: the argument of a call and the network's answer to its request *)

Countries == {"US", "CA", "MX", "XX", "UNKNOWN"}

\* statuses of a response client.Get returns with a nil error (a 302 comes
\* back this way when it carries no Location)
Statuses == {200, 201, 204, 302, 404, 500}

\* the statuses net/http follows as redirects
RedirectStatuses == {301, 302, 303, 307, 308}

\* The client of lines 83-85 sets no CheckRedirect, so net/http's default
\* policy applies: a redirect is followed with a further GET until ten
\* requests have been made, then client.Get gives up with an error.
MaxRedirects == 10

\* numbers of redirects followed before the answer a call gets
RedirectsFollowed == {0, 1, MaxRedirects - 1}

TemperatureMembers == {JAbsent, JNull, JString, JHuge, JDec(255), JInt(-5)}
ApparentMembers == {JAbsent, JString, JDec(240)}
CodeMembers ==
    {JAbsent, JNull, JString, JHuge, JDec(15), JInt(0), JInt(61), JInt(95),
     JInt(999)}

Bodies ==
    {BodyEmpty, BodySyntax, BodyNull, BodyArray}
        \cup {BodyObject(c) : c \in {CurAbsent, CurNull, CurArray}}
        \cup {BodyObject(CurObject(t, a, w)) :
                t \in TemperatureMembers, a \in ApparentMembers, w \in CodeMembers}

\* What one call of client.Get does and returns: gets is the number of HTTP
\* GET requests net/http put on the wire during the call, ok is err == nil,
\* answered is resp != nil.
\* the request cannot be sent (no connection): nil response and an error
Unsent ==
    [gets |-> 0, ok |-> FALSE, answered |-> FALSE, StatusCode |-> 0,
     Body |-> BodyEmpty]
\* the request is sent and no answer arrives (connection lost, or the ten
\* second timeout): nil response and an error
TransportFailure ==
    [gets |-> 1, ok |-> FALSE, answered |-> FALSE, StatusCode |-> 0,
     Body |-> BodyEmpty]
\* the tenth request is answered by a redirect as well: client.Get returns
\* that response, its body closed, together with an error
RedirectFailure(s) ==
    [gets |-> MaxRedirects, ok |-> FALSE, answered |-> TRUE, StatusCode |-> s,
     Body |-> BodyEmpty]
\* client.Get returns a response and a nil error
Response(s, b) ==
    [gets |-> 1, ok |-> TRUE, answered |-> TRUE, StatusCode |-> s, Body |-> b]
\* the answer w, reached after n redirects were followed
AfterRedirects(n, w) == [w EXCEPT !.gets = n + 1]

Wires ==
    {Unsent} \cup {RedirectFailure(s) : s \in RedirectStatuses}
        \cup {AfterRedirects(n, TransportFailure) : n \in RedirectsFollowed}
        \cup {AfterRedirects(n, Response(s, b)) :
                n \in RedirectsFollowed, s \in Statuses, b \in Bodies}

\* representative inputs for the concurrent specification
ConcurrentCountries == {"US", "XX"}
ConcurrentWires ==
    {TransportFailure,
     RedirectFailure(302),
     Response(500, BodySyntax),
     Response(201, BodyObject(CurObject(JDec(255), JDec(240), JInt(61)))),
     Response(200, BodySyntax),
     Response(200, BodyObject(CurAbsent)),
     AfterRedirects(1,
        Response(200, BodyObject(CurObject(JDec(255), JDec(240), JInt(61)))))}

-----------------------------------------------------------------------------
(* State machine *)

Locals(first) ==
    /\ naCountryCoordinates = naCountryCoordinatesInit
    /\ weatherCodeDescriptions = weatherCodeDescriptionsInit
    /\ pc = [i \in Calls |-> IF i \in first THEN "resolve" ELSE "idle"]
    /\ coords = [i \in Calls |-> ZeroCoordinates]
    /\ url = [i \in Calls |-> ""]
    /\ resp = [i \in Calls |-> <<>>]
    /\ apiResp = [i \in Calls |-> ZeroOpenMeteoResponse]
    /\ result = [i \in Calls |-> <<>>]
    /\ err = [i \in Calls |-> ErrNil]
    /\ steps = [i \in Calls |-> <<>>]
    /\ requests = [i \in Calls |-> 0]

\* one invocation, over all the inputs
Init ==
    /\ Locals({1})
    /\ \E c \in Countries, w \in Wires :
          /\ country = [i \in Calls |-> IF i = 1 THEN c ELSE ""]
          /\ wire = [i \in Calls |-> IF i = 1 THEN w ELSE Unsent]

\* NumCalls invocations in flight together, over the representative inputs
InitConcurrent ==
    /\ Locals(Calls)
    /\ country \in [Calls -> ConcurrentCountries]
    /\ wire \in [Calls -> ConcurrentWires]

\* resp as client.Get assigns it at line 88: nil or the response
Received(w) ==
    IF w.answered THEN <<[StatusCode |-> w.StatusCode, Body |-> w.Body]>>
    ELSE <<>>

Goto(i, label, step) ==
    /\ pc' = [pc EXCEPT ![i] = label]
    /\ steps' = [steps EXCEPT ![i] = Append(@, step)]

\* return nil, fmt.Errorf(...)
ReturnError(i, e, step) ==
    /\ Goto(i, "done", step)
    /\ result' = [result EXCEPT ![i] = <<>>]
    /\ err' = [err EXCEPT ![i] = e]

\* a resolver that stores the fallback under the unknown code
ResolveCoordinatesCaching(i) ==
    /\ pc[i] = "resolve"
    /\ coords' = [coords EXCEPT
                    ![i] = LookupCoordinates(naCountryCoordinates, country[i])]
    /\ url' = [url EXCEPT ![i] = BuildURL(coords'[i])]
    /\ naCountryCoordinates' = (country[i] :> coords'[i]) @@ naCountryCoordinates
    /\ Goto(i, "get", "resolve")
    /\ UNCHANGED <<weatherCodeDescriptions, wire, country,
                   requests, resp, apiResp,
                   result, err>>

\* lines 70-80: look the country up, build the URL
ResolveCoordinates(i) ==
    /\ pc[i] = "resolve"
    /\ coords' = [coords EXCEPT
                    ![i] = LookupCoordinates(naCountryCoordinates, country[i])]
    /\ url' = [url EXCEPT ![i] = BuildURL(coords'[i])]
    /\ Goto(i, "get", "resolve")
    /\ UNCHANGED <<naCountryCoordinates, weatherCodeDescriptions, wire, country,
                   requests,
                   resp, apiResp, result, err>>

\* line 88, inside client.Get: net/http writes the next GET (the first one,
\* or the one that follows a redirect) and the goroutine waits for its
\* answer; other calls run meanwhile
SendRequest(i) ==
    /\ pc[i] = "get"
    /\ requests[i] < wire[i].gets
    /\ requests' = [requests EXCEPT ![i] = @ + 1]
    /\ UNCHANGED <<naCountryCoordinates, weatherCodeDescriptions, wire, country,
                   pc, coords, url, resp, apiResp, result, err, steps>>

\* a client that sends the request again after a transport failure
ClientGetFailsRetry(i) ==
    /\ pc[i] = "get"
    /\ requests[i] = wire[i].gets
    /\ ~wire[i].ok
    /\ Goto(i, "get", "get")
    /\ UNCHANGED <<naCountryCoordinates, weatherCodeDescriptions, wire, country,
                   requests,
                   coords, url, resp, apiResp, result, err>>

\* lines 88-91: client.Get(url), every GET of the call written, returns an
\* error; resp is assigned all the same, and is non-nil when the redirect
\* policy failed
ClientGetFails(i) ==
    /\ pc[i] = "get"
    /\ requests[i] = wire[i].gets
    /\ ~wire[i].ok
    /\ resp' = [resp EXCEPT ![i] = Received(wire[i])]
    /\ ReturnError(i, ErrTransport, "get")
    /\ UNCHANGED <<naCountryCoordinates, weatherCodeDescriptions, wire, country,
                   requests,
                   coords, url, apiResp>>

\* the body is decoded without the status having been looked at
ClientGetRespondsUnchecked(i) ==
    /\ pc[i] = "get"
    /\ requests[i] = wire[i].gets
    /\ wire[i].ok
    /\ resp' = [resp EXCEPT ![i] = Received(wire[i])]
    /\ Goto(i, "decode", "get")
    /\ UNCHANGED <<naCountryCoordinates, weatherCodeDescriptions, wire, country,
                   requests,
                   coords, url, apiResp, result, err>>

\* line 88: client.Get(url), every GET of the call written and the last one
\* answered, returns a response
ClientGetResponds(i) ==
    /\ pc[i] = "get"
    /\ requests[i] = wire[i].gets
    /\ wire[i].ok
    /\ resp' = [resp EXCEPT ![i] = Received(wire[i])]
    /\ Goto(i, "status", "get")
    /\ UNCHANGED <<naCountryCoordinates, weatherCodeDescriptions, wire, country,
                   requests,
                   coords, url, apiResp, result, err>>

\* lines 94-96: the status is not StatusOK
StatusRejected(i) ==
    /\ pc[i] = "status"
    /\ ~StatusIsOK(resp[i][1].StatusCode)
    /\ ReturnError(i, ErrStatus, "status")
    /\ UNCHANGED <<naCountryCoordinates, weatherCodeDescriptions, wire, country,
                   requests,
                   coords, url, resp, apiResp>>

\* line 94: the status is StatusOK
StatusAccepted(i) ==
    /\ pc[i] = "status"
    /\ StatusIsOK(resp[i][1].StatusCode)
    /\ Goto(i, "decode", "status")
    /\ UNCHANGED <<naCountryCoordinates, weatherCodeDescriptions, wire, country,
                   requests,
                   coords, url, resp, apiResp, result, err>>

\* lines 99-102: Decode returns an error
DecodeFails(i) ==
    /\ pc[i] = "decode"
    /\ DecodeBody(resp[i][1].Body).bad
    /\ apiResp' = [apiResp EXCEPT ![i] = DecodeBody(resp[i][1].Body).val]
    /\ ReturnError(i, ErrDecode, "decode")
    /\ UNCHANGED <<naCountryCoordinates, weatherCodeDescriptions, wire, country,
                   requests,
                   coords, url, resp>>

\* lines 99-100: Decode fills apiResp
DecodeSucceeds(i) ==
    /\ pc[i] = "decode"
    /\ ~DecodeBody(resp[i][1].Body).bad
    /\ apiResp' = [apiResp EXCEPT ![i] = DecodeBody(resp[i][1].Body).val]
    /\ Goto(i, "describe", "decode")
    /\ UNCHANGED <<naCountryCoordinates, weatherCodeDescriptions, wire, country,
                   requests,
                   coords, url, resp, result, err>>

\* lines 105-114: translate the weather code, return the result
ReturnWeatherData(i) ==
    /\ pc[i] = "describe"
    /\ result' = [result EXCEPT
                    ![i] = <<MakeWeatherData(
                               Describe(weatherCodeDescriptions,
                                        apiResp[i].WeatherCode),
                               apiResp[i])>>]
    /\ err' = [err EXCEPT ![i] = ErrNil]
    /\ Goto(i, "done", "describe")
    /\ UNCHANGED <<naCountryCoordinates, weatherCodeDescriptions, wire, country,
                   requests,
                   coords, url, resp, apiResp>>

\* one statement of invocation i
FetchWeather(i) ==
    \/ ResolveCoordinates(i)
    \/ SendRequest(i)
    \/ ClientGetFails(i)
    \/ ClientGetResponds(i)
    \/ StatusRejected(i)
    \/ StatusAccepted(i)
    \/ DecodeFails(i)
    \/ DecodeSucceeds(i)
    \/ ReturnWeatherData(i)

Next == \E i \in Calls : FetchWeather(i)

Spec == Init /\ [][Next]_vars

SpecConcurrent == InitConcurrent /\ [][Next]_vars

\* A call runs on its caller's goroutine without waiting for anything but
\* client.Get, which the ten second Timeout of line 84 bounds: a statement
\* that can run does run.
SpecFair == Spec /\ \A i \in Calls : WF_vars(FetchWeather(i))

-----------------------------------------------------------------------------
(* FetchWeather as one sequential function of its argument and the answer  *)
(* to its request: the URL requested, the result and the error.            *)

FetchWeatherSequential(c, w) ==
    LET u == BuildURL(LookupCoordinates(naCountryCoordinatesInit, c))
        d == DecodeBody(w.Body)
    IN  IF ~w.ok THEN [url |-> u, result |-> <<>>, err |-> ErrTransport]
        ELSE IF ~StatusIsOK(w.StatusCode)
        THEN [url |-> u, result |-> <<>>, err |-> ErrStatus]
        ELSE IF d.bad THEN [url |-> u, result |-> <<>>, err |-> ErrDecode]
        ELSE [url |-> u,
              result |-> <<MakeWeatherData(
                             Describe(weatherCodeDescriptionsInit,
                                      d.val.WeatherCode), d.val)>>,
              err |-> ErrNil]

-----------------------------------------------------------------------------
(* Properties *)

Done(i) == pc[i] = "done"
Resolved(i) == pc[i] \notin {"idle", "resolve"}
\* client.Get returned a response and a nil error
Answered(i) == Done(i) /\ wire[i].ok /\ resp[i] # <<>>
Status(i) == resp[i][1].StatusCode
Body(i) == resp[i][1].Body
Performed(i, step) == \E k \in 1..Len(steps[i]) : steps[i][k] = step
Gets(i) == Cardinality({k \in 1..Len(steps[i]) : steps[i][k] = "get"})
FullPath == <<"resolve", "get", "status", "decode", "describe">>
IsPrefix(s, t) == Len(s) <= Len(t) /\ \A k \in 1..Len(s) : s[k] = t[k]

\* C1: once coordinates are resolved, a country of the table has its entry's
\* coordinates (US = (40.7128, -74.0060), CA = (43.6532, -79.3832)), any other
\* country has the coordinates of the "US" entry, the URL requested carries
\* exactly these coordinates, and resolution itself never ends the call.
C1_CoordinateResolution ==
    \A i \in Calls : Resolved(i) =>
        /\ country[i] = "US" => coords[i] = [Lat |-> 407128, Lon |-> -740060]
        /\ country[i] = "CA" => coords[i] = [Lat |-> 436532, Lon |-> -793832]
        /\ country[i] \in DOMAIN naCountryCoordinates
              => coords[i] = naCountryCoordinates[country[i]]
        /\ country[i] \notin DOMAIN naCountryCoordinates
              => /\ coords[i] = naCountryCoordinates["US"]
                 /\ url[i] = "https://api.open-meteo.com/v1/forecast?latitude=40.7128&longitude=-74.0060&current=temperature_2m,apparent_temperature,weather_code"
        /\ url[i] = BuildURL(coords[i])
        /\ steps[i][1] = "resolve"
        /\ Len(steps[i]) = 1 => pc[i] = "get" /\ err[i] = ErrNil

C1_Witness ==
    \E i \in Calls :
        /\ Done(i) /\ country[i] = "UNKNOWN" /\ err[i] = ErrNil
        /\ coords[i] = [Lat |-> 407128, Lon |-> -740060]

\* C2: a returned summary is the table's string for the decoded weather code
\* (0 "Clear sky", 61 "Slight rain", 95 "Thunderstorm"), is "Unknown" for a
\* code absent from the table (999), and translation never fails the call.
C2_WeatherCodeResolution ==
    \A i \in Calls :
        /\ pc[i] = "describe" => ENABLED ReturnWeatherData(i)
        /\ Done(i) /\ Performed(i, "describe") =>
            /\ err[i] = ErrNil /\ Len(result[i]) = 1
            /\ LET code == apiResp[i].WeatherCode
                   summary == result[i][1].Summary
               IN  /\ code \in DOMAIN weatherCodeDescriptions
                          => summary = weatherCodeDescriptions[code]
                   /\ code \notin DOMAIN weatherCodeDescriptions
                          => summary = "Unknown"
                   /\ code = 0 => summary = "Clear sky"
                   /\ code = 61 => summary = "Slight rain"
                   /\ code = 95 => summary = "Thunderstorm"
                   /\ code = 999 => summary = "Unknown"
                   /\ Body(i).current.m.weather_code.k = "int"
                          => code * 10 = Body(i).current.m.weather_code.v

C2_Witness ==
    \E i \in Calls :
        /\ Done(i) /\ apiResp[i].WeatherCode = 999
        /\ result[i] # <<>> /\ result[i][1].Summary = "Unknown"

\* C3 as stated: once client.Get has returned a response and a nil error,
\* the call fails with the http-status error iff the status is outside
\* 200..299, and every 2xx status leads to the body being decoded.
C3_Original2xx ==
    \A i \in Calls : Answered(i) =>
        /\ (err[i] = ErrStatus /\ result[i] = <<>>)
              <=> ~(Status(i) >= 200 /\ Status(i) < 300)
        /\ (Status(i) >= 200 /\ Status(i) < 300) => Performed(i, "decode")

\* C3 amended: once client.Get has returned a response and a nil error, the
\* call fails with the http-status error and no result iff the status
\* differs from 200; the body is decoded iff the status is exactly 200.  (A
\* response that comes with an error is the transport failure of C10.)
C3_StatusMustBe200 ==
    \A i \in Calls : Answered(i) =>
        /\ (err[i] = ErrStatus /\ result[i] = <<>>) <=> Status(i) # 200
        /\ Performed(i, "decode") <=> Status(i) = 200

C3_Witness ==
    \E i \in Calls :
        /\ Answered(i) /\ Status(i) = 201
        /\ err[i] = ErrStatus /\ result[i] = <<>> /\ ~Performed(i, "decode")

\* the shape {"current": {"temperature_2m": number,
\* "apparent_temperature": number, "weather_code": integer}}
MatchesExpectedShape(b) ==
    /\ b.top = "object"
    /\ b.current.k = "object"
    /\ b.current.m.temperature_2m.k \in {"int", "dec"}
    /\ b.current.m.apparent_temperature.k \in {"int", "dec"}
    /\ b.current.m.weather_code.k = "int"

\* a body that does not begin with a JSON value, a top-level value other
\* than an object or null, a "current" that is neither an object nor null,
\* a temperature member that is neither null nor a number float64 holds, or
\* a weather_code that is neither null nor an integer literal int holds
IllTyped(b) ==
    \/ b.top \in {"eof", "syntax", "array"}
    \/ /\ b.top = "object"
       /\ \/ b.current.k = "array"
          \/ /\ b.current.k = "object"
             /\ \/ b.current.m.temperature_2m.k \notin
                        {"absent", "null", "int", "dec"}
                \/ b.current.m.apparent_temperature.k \notin
                        {"absent", "null", "int", "dec"}
                \/ b.current.m.weather_code.k \notin {"absent", "null", "int"}

\* C4 as stated: with status 200, every body that does not match the
\* expected shape fails with the decode error and no result, and a result
\* is returned only for bodies that match the shape.
C4_OriginalShapeRequired ==
    \A i \in Calls : Answered(i) /\ Status(i) = 200 =>
        /\ ~MatchesExpectedShape(Body(i))
              => err[i] = ErrDecode /\ result[i] = <<>>
        /\ result[i] # <<>> => MatchesExpectedShape(Body(i))

\* C4 amended: with status 200, the call fails with the decode error and no
\* result iff the body does not begin with a JSON value, or that value is
\* neither an object nor null, or "current" is present and neither an object
\* nor null, or a member is present, not null, and not a number its Go type
\* holds; a missing or null "current" or member is accepted and read as zero.
C4_DecodeRejectsIllTypedOnly ==
    \A i \in Calls : Answered(i) /\ Status(i) = 200 =>
        /\ (err[i] = ErrDecode /\ result[i] = <<>>) <=> IllTyped(Body(i))
        /\ ~IllTyped(Body(i)) =>
            /\ Len(result[i]) = 1
            /\ Body(i).top = "null" \/ Body(i).current.k \in {"absent", "null"}
                  => result[i][1] = [Summary |-> "Clear sky",
                                     TemperatureC |-> 0, FeelsLikeC |-> 0]
            /\ Body(i).current.m.temperature_2m.k \in {"absent", "null"}
                  => result[i][1].TemperatureC = 0
            /\ Body(i).current.m.apparent_temperature.k \in {"absent", "null"}
                  => result[i][1].FeelsLikeC = 0

C4_Witness ==
    \E i \in Calls :
        /\ Answered(i) /\ Status(i) = 200 /\ Body(i) = BodyObject(CurAbsent)
        /\ err[i] = ErrNil
        /\ result[i] = <<[Summary |-> "Clear sky", TemperatureC |-> 0,
                          FeelsLikeC |-> 0]>>

\* C5: a finished call has either a result and a nil error or no result and
\* an error; the success path returns the translated summary, the
\* response's temperature_2m as TemperatureC and its apparent_temperature
\* as FeelsLikeC.
C5_ResultXorError ==
    \A i \in Calls : Done(i) =>
        /\ (result[i] = <<>>) <=> (err[i] # ErrNil)
        /\ err[i] \in {ErrNil, ErrTransport, ErrStatus, ErrDecode}
        /\ Len(result[i]) <= 1
        /\ Performed(i, "describe") <=> err[i] = ErrNil
        /\ err[i] = ErrNil =>
            LET m == Body(i).current.m
                r == result[i][1]
            IN  /\ steps[i] = FullPath
                /\ r.Summary = Describe(weatherCodeDescriptions,
                                        apiResp[i].WeatherCode)
                /\ r.TemperatureC = apiResp[i].Temperature
                /\ r.FeelsLikeC = apiResp[i].ApparentTemperature
                /\ IsNumber(m.temperature_2m)
                      => r.TemperatureC = m.temperature_2m.v
                /\ IsNumber(m.apparent_temperature)
                      => r.FeelsLikeC = m.apparent_temperature.v

C5_Witness ==
    \E i \in Calls :
        /\ Done(i) /\ err[i] = ErrNil
        /\ result[i] = <<[Summary |-> "Slight rain", TemperatureC |-> 255,
                          FeelsLikeC |-> 240]>>

LocalsOf(i) ==
    <<pc[i], country[i], coords[i], url[i], resp[i], apiResp[i], result[i],
      err[i], steps[i], wire[i], requests[i]>>

\* C7: under every interleaving the two tables keep their initial value, a
\* step of one call changes nothing another call owns, and a finished call
\* requested the URL and returned the result and error that its own country
\* and the answer to its own request determine.
C7_NoSharedMutableState ==
    /\ [](/\ naCountryCoordinates = naCountryCoordinatesInit
          /\ weatherCodeDescriptions = weatherCodeDescriptionsInit
          /\ \A i \in Calls : Done(i) =>
                [url |-> url[i], result |-> result[i], err |-> err[i]]
                    = FetchWeatherSequential(country[i], wire[i]))
    /\ [][/\ naCountryCoordinates' = naCountryCoordinates
          /\ weatherCodeDescriptions' = weatherCodeDescriptions
          /\ \A i, j \in Calls :
                i # j /\ FetchWeather(i) => LocalsOf(j)' = LocalsOf(j)]_vars

C7_Witness ==
    \E i, j \in Calls :
        /\ i # j /\ country[i] # country[j]
        /\ pc[i] = "decode"
        /\ Done(j) /\ err[j] = ErrNil /\ result[j] # <<>>

\* C8: every entry of the country table, and the coordinates every call
\* resolved (the fallback included), have latitude in [-90, 90] and
\* longitude in [-180, 180].
ValidCoordinates(c) ==
    /\ c.Lat >= -90 * Scale /\ c.Lat <= 90 * Scale
    /\ c.Lon >= -180 * Scale /\ c.Lon <= 180 * Scale

C8_CoordinatesInRange ==
    /\ \A c \in DOMAIN naCountryCoordinates :
          ValidCoordinates(naCountryCoordinates[c])
    /\ \A i \in Calls : Resolved(i) => ValidCoordinates(coords[i])

C8_Witness ==
    /\ \E i \in Calls :
          /\ pc[i] = "get" /\ country[i] = "MX"
          /\ coords[i] = [Lat |-> 194326, Lon |-> -991332]
    /\ DOMAIN naCountryCoordinates = {"US", "CA", "MX"}

\* C9 as stated: the weather-code table has exactly 23 codes.
C9_Original23Codes ==
    Cardinality(DOMAIN weatherCodeDescriptions) = 23

\* C9 amended: the weather-code table maps exactly 24 distinct integer
\* codes to non-empty description strings.
C9_Table24Codes ==
    /\ Cardinality(DOMAIN weatherCodeDescriptions) = 24
    /\ DOMAIN weatherCodeDescriptions \subseteq Int
    /\ \A c \in DOMAIN weatherCodeDescriptions :
          weatherCodeDescriptions[c] \in STRING /\ weatherCodeDescriptions[c] # ""

C9_Witness ==
    \E i \in Calls :
        /\ pc[i] = "describe" /\ apiResp[i].WeatherCode = 95
        /\ Cardinality(DOMAIN weatherCodeDescriptions) = 24

\* C10: the statements run in the order resolve, get, status, decode,
\* describe; an error from client.Get ends the call with the transport
\* error before any status or body is looked at, also when a response came
\* with the error; a status other than 200 ends it
\* with the http-status error whatever the body, which is never decoded; the
\* decode error is reported only after the request and the status check
\* both passed.
C10_FirstFailureWins ==
    \A i \in Calls :
        /\ IsPrefix(steps[i], FullPath)
        /\ resp[i] = IF Performed(i, "get") THEN Received(wire[i]) ELSE <<>>
        /\ Done(i) /\ ~wire[i].ok =>
              /\ err[i] = ErrTransport /\ result[i] = <<>>
              /\ apiResp[i] = ZeroOpenMeteoResponse
              /\ steps[i] = <<"resolve", "get">>
        /\ Done(i) /\ wire[i].ok /\ wire[i].StatusCode # StatusOK =>
              /\ err[i] = ErrStatus
              /\ steps[i] = <<"resolve", "get", "status">>
              /\ apiResp[i] = ZeroOpenMeteoResponse
        /\ err[i] = ErrDecode =>
              /\ wire[i].ok /\ wire[i].StatusCode = StatusOK
              /\ steps[i] = <<"resolve", "get", "status", "decode">>

C10_Witness ==
    \E i \in Calls :
        /\ Answered(i) /\ Status(i) = 500 /\ Body(i) = BodySyntax
        /\ err[i] = ErrStatus /\ ~Performed(i, "decode")

====
